---- MODULE Spec2Model ----
(***************************************************************************)
(* docker-registry-pruner: the registry API client (package registry) and  *)
(* the prune loop (main).                                                  *)
(*                                                                         *)
(* Text is modelled as a tuple of one-character strings where the code     *)
(* looks inside it (the Www-Authenticate and Link headers), and as a tuple *)
(* of chunks where the code only concatenates it (request paths, URLs).    *)
(* A regular expression of the configuration is modelled by the set of     *)
(* names it matches.                                                       *)
(***************************************************************************)
EXTENDS Integers, Sequences, FiniteSets, TLC

VARIABLES
    a,            \* the API client: user, pass, bearerToken
    cfg,          \* package config: Repos, Tags, MinAge, Dry
    pc,           \* position of main
    path,         \* GetRepositories: path of the next catalog page
    repositories, \* GetRepositories: names accumulated / main: the catalog
    pages,        \* history: one record per catalog page received
    ri,           \* main: index of the repository being handled
    tags,         \* GetTagsIndexedByDigest: the tag list of the repository
    ti,           \* GetTagsIndexedByDigest: index of the tag being looked up
    result,       \* GetTagsIndexedByDigest: digest => tag slice
    digests,      \* history: the digest each tag of the list resolved to
    todo,         \* main: digests of the map not yet ranged over
    cur,          \* main: digest of the group being handled
    clock,        \* time.Now()
    sent,         \* history: every request put on the wire, in order
    log,          \* history: what main logged about groups and failures
    call,         \* history: the last completed call of API.request
    ncalls,       \* history: number of calls of API.request made by the driver
    obtained,     \* history: the last non-empty token a token service issued
    authed,       \* history: a challenged call got a token and a successful retry
    kvIn,         \* TestExtractKeyValuePairs: the header given to extractKeyValuePairs
    kvOut         \* TestExtractKeyValuePairs: the mapping it returned

vars == <<a, cfg, pc, path, repositories, pages, ri, tags, ti, result, digests,
          todo, cur, clock, sent, log, call, ncalls, obtained, authed, kvIn, kvOut>>

(***************************************************************************)
(* Bounds of the model.                                                    *)
(***************************************************************************)
MaxCalls == 3      \* calls of API.request the client driver makes
MaxReplies == 5    \* replies of the servers within one call of API.request
MaxPages == 2      \* pages of the catalog
MaxPageLen == 1    \* repository names on one page of the catalog
MaxTags == 2       \* tags of the repository of a catalog of one repository
MaxRunTags == 1    \* tags of a repository of a paginated catalog
MaxClock == 3      \* latest reading of the clock
MaxAuth == 1       \* challenges the registry lets the run answer
MaxPairs == 2      \* pairs of a header made of pairs
MaxText == 5       \* characters of a header of arbitrary text

(***************************************************************************)
(* Characters and text.                                                    *)
(***************************************************************************)
Letters ==
    {"a","b","c","d","e","f","g","h","i","j","k","l","m","n","o","p","q",
     "r","s","t","u","v","w","x","y","z",
     "A","B","C","D","E","F","G","H","I","J","K","L","M","N","O","P","Q",
     "R","S","T","U","V","W","X","Y","Z"}

Digits == {"0","1","2","3","4","5","6","7","8","9"}

\* The class \w of the regular expression.
WordChars == Letters \cup Digits \cup {"_"}

Quote == "\""

wwwAuthenticateHeader == "Www-Authenticate"

manifestV1 == 1
manifestV2 == 2

manifestContentType ==
    [v \in {manifestV1, manifestV2} |->
        IF v = manifestV1
        THEN "application/vnd.docker.distribution.manifest.v1+prettyjws"
        ELSE "application/vnd.docker.distribution.manifest.v2+json"]

\* strings.Index(s, c): 0-based index of the first c in s, -1 if none.
Index(s, c) ==
    IF \E k \in 1..Len(s) : s[k] = c
    THEN (CHOOSE k \in 1..Len(s) : s[k] = c /\ \A l \in 1..(k - 1) : s[l] # c) - 1
    ELSE -1

\* strings.LastIndex(s, c): 0-based index of the last c in s, -1 if none.
LastIndex(s, c) ==
    IF \E k \in 1..Len(s) : s[k] = c
    THEN (CHOOSE k \in 1..Len(s) : s[k] = c /\ \A l \in (k + 1)..Len(s) : s[l] # c) - 1
    ELSE -1

(***************************************************************************)
(* Replies of the server.  A transport failure is ErrReply; an HTTP reply  *)
(* carries its status, the three response headers the client reads (an     *)
(* absent header reads as the empty text, as http.Header.Get returns it)   *)
(* and its decoded body.                                                   *)
(***************************************************************************)
ErrReply == [err |-> TRUE]

HTTPReply(status, www, link, digest, body) ==
    [err |-> FALSE, status |-> status, www |-> www, link |-> link,
     digest |-> digest, body |-> body]

\* A body that is not JSON, and the JSON object {}.
BadJSON == [json |-> FALSE]
EmptyObject == [json |-> TRUE]

\* The nil *http.Response.
NilResp == [nil |-> TRUE]

\* API.nextPagePath: link[begin:end] panics when end < begin.
nextPagePath(resp) ==
    LET link == resp.link
        begin == Index(link, "<") + 1
        end == LastIndex(link, ">")
    IN  IF link = <<>> THEN [out |-> "ok", path |-> <<>>]
        ELSE IF begin > end THEN [out |-> "panic", path |-> <<>>]
        ELSE [out |-> "ok", path |-> SubSeq(link, begin + 1, end)]

(***************************************************************************)
(* extractKeyValuePairs: all non-overlapping leftmost matches of the       *)
(* expression: a run of one or more word characters (the key), an equals   *)
(* sign, a double quote, a run of characters other than the double quote   *)
(* (the value), a double quote.  A match starts at i when a non-empty run  *)
(* of word characters starting at i is followed by the equals sign and the *)
(* quote and a closing quote exists; the value runs to the first closing   *)
(* quote.                                                                  *)
(***************************************************************************)
RECURSIVE WordEnd(_, _)
WordEnd(s, i) ==
    IF i > Len(s) \/ s[i] \notin WordChars THEN i ELSE WordEnd(s, i + 1)

MatchesAt(s, i) ==
    LET j == WordEnd(s, i)
    IN  /\ j > i
        /\ j + 1 <= Len(s)
        /\ s[j] = "="
        /\ s[j + 1] = Quote
        /\ \E k \in (j + 2)..Len(s) : s[k] = Quote

\* A variant in which the value runs to the last double quote of the text.
CloseQuoteGreedy(s, i) ==
    LET j == WordEnd(s, i)
    IN  CHOOSE k \in (j + 2)..Len(s) :
            s[k] = Quote /\ \A l \in (k + 1)..Len(s) : s[l] # Quote

CloseQuote(s, i) ==
    LET j == WordEnd(s, i)
    IN  CHOOSE k \in (j + 2)..Len(s) :
            s[k] = Quote /\ \A l \in (j + 2)..(k - 1) : s[l] # Quote

RECURSIVE FindAllSubmatch(_, _)
FindAllSubmatch(s, i) ==
    IF i > Len(s) THEN <<>>
    ELSE IF MatchesAt(s, i)
    THEN LET j == WordEnd(s, i)
             k == CloseQuote(s, i)
         IN  <<<<SubSeq(s, i, j - 1), SubSeq(s, j + 2, k - 1)>>>>
                 \o FindAllSubmatch(s, k + 1)
    ELSE FindAllSubmatch(s, i + 1)

\* The loop of extractKeyValuePairs over the matches ms: a later match of a
\* key replaces an earlier one.
ResultOfMatches(ms) ==
    [k \in {ms[n][1] : n \in DOMAIN ms} |->
        ms[CHOOSE n \in DOMAIN ms :
               ms[n][1] = k /\ \A l \in DOMAIN ms : ms[l][1] = k => l <= n][2]]

extractKeyValuePairs(header) == ResultOfMatches(FindAllSubmatch(header, 1))

BearerPrefix == <<"B","e","a","r","e","r"," ">>
KeyRealm == <<"r","e","a","l","m">>
KeyService == <<"s","e","r","v","i","c","e">>
KeyScope == <<"s","c","o","p","e">>

\* The 256 bytes in the order of their values.  A byte that is a character
\* with a string in TLA+ is that character; any other (the grave accent,
\* DEL, most control bytes, the bytes from 0x80 on) is written "x" and its
\* two hexadecimal digits.
Bytes ==
    <<
      "x00", "x01", "x02", "x03", "x04", "x05", "x06", "x07",
      "x08", "\t", "\n", "x0B", "\f", "\r", "x0E", "x0F",
      "x10", "x11", "x12", "x13", "x14", "x15", "x16", "x17",
      "x18", "x19", "x1A", "x1B", "x1C", "x1D", "x1E", "x1F",
      " ", "!", Quote, "#", "$", "%", "&", "'",
      "(", ")", "*", "+", ",", "-", ".", "/",
      "0", "1", "2", "3", "4", "5", "6", "7",
      "8", "9", ":", ";", "<", "=", ">", "?",
      "@", "A", "B", "C", "D", "E", "F", "G",
      "H", "I", "J", "K", "L", "M", "N", "O",
      "P", "Q", "R", "S", "T", "U", "V", "W",
      "X", "Y", "Z", "[", "\\", "]", "^", "_",
      "x60", "a", "b", "c", "d", "e", "f", "g",
      "h", "i", "j", "k", "l", "m", "n", "o",
      "p", "q", "r", "s", "t", "u", "v", "w",
      "x", "y", "z", "{", "|", "}", "~", "x7F",
      "x80", "x81", "x82", "x83", "x84", "x85", "x86", "x87",
      "x88", "x89", "x8A", "x8B", "x8C", "x8D", "x8E", "x8F",
      "x90", "x91", "x92", "x93", "x94", "x95", "x96", "x97",
      "x98", "x99", "x9A", "x9B", "x9C", "x9D", "x9E", "x9F",
      "xA0", "xA1", "xA2", "xA3", "xA4", "xA5", "xA6", "xA7",
      "xA8", "xA9", "xAA", "xAB", "xAC", "xAD", "xAE", "xAF",
      "xB0", "xB1", "xB2", "xB3", "xB4", "xB5", "xB6", "xB7",
      "xB8", "xB9", "xBA", "xBB", "xBC", "xBD", "xBE", "xBF",
      "xC0", "xC1", "xC2", "xC3", "xC4", "xC5", "xC6", "xC7",
      "xC8", "xC9", "xCA", "xCB", "xCC", "xCD", "xCE", "xCF",
      "xD0", "xD1", "xD2", "xD3", "xD4", "xD5", "xD6", "xD7",
      "xD8", "xD9", "xDA", "xDB", "xDC", "xDD", "xDE", "xDF",
      "xE0", "xE1", "xE2", "xE3", "xE4", "xE5", "xE6", "xE7",
      "xE8", "xE9", "xEA", "xEB", "xEC", "xED", "xEE", "xEF",
      "xF0", "xF1", "xF2", "xF3", "xF4", "xF5", "xF6", "xF7",
      "xF8", "xF9", "xFA", "xFB", "xFC", "xFD", "xFE", "xFF" >>

\* The value of a byte.
ByteOf(c) == (CHOOSE n \in DOMAIN Bytes : Bytes[n] = c) - 1

\* The digits "0123456789ABCDEF" of url.QueryEscape.
UpperHex == <<"0", "1", "2", "3", "4", "5", "6", "7", "8", "9", "A", "B", "C", "D", "E", "F">>

\* The two hexadecimal digits that url.QueryEscape writes after "%" for a
\* character it escapes: those of the high and of the low half of its byte.
HexOf(c) == <<UpperHex[(ByteOf(c) \div 16) + 1], UpperHex[(ByteOf(c) % 16) + 1]>>

\* The characters that url.QueryEscape keeps.
Unreserved == WordChars \cup {"-", ".", "~"}

\* url.QueryEscape, as url.Values.Encode applies it to a value: letters,
\* digits, "-", "_", "." and "~" are kept, a blank becomes "+", any other
\* character "%" and its code.
RECURSIVE QueryEscape(_)
QueryEscape(text) ==
    IF text = <<>> THEN <<>>
    ELSE (IF Head(text) \in Unreserved THEN <<Head(text)>>
          ELSE IF Head(text) = " " THEN <<"+">>
          ELSE <<"%">> \o HexOf(Head(text)))
             \o QueryEscape(Tail(text))

(***************************************************************************)
(* http.NewRequest fails when url.Parse does not accept the URL (the        *)
(* methods of the client are valid).  A URL is a text; the operators below *)
(* follow url.Parse and say whether it returns a nil error.                *)
(***************************************************************************)
\* The characters of the chunks that the paths and URLs of the model are
\* put together from; any other chunk is one character.
Spelled ==
    [chunk \in {"/v2/", "/v2/_catalog", "/tags/list", "/manifests/", "scope",
                "service", "latest", "v1", "d1", "d2", "%zz"} |->
        CASE chunk = "/v2/" -> <<"/", "v", "2", "/">>
          [] chunk = "/v2/_catalog" ->
                 <<"/", "v", "2", "/", "_", "c", "a", "t", "a", "l", "o", "g">>
          [] chunk = "/tags/list" -> <<"/", "t", "a", "g", "s", "/", "l", "i", "s", "t">>
          [] chunk = "/manifests/" ->
                 <<"/", "m", "a", "n", "i", "f", "e", "s", "t", "s", "/">>
          [] chunk = "scope" -> <<"s", "c", "o", "p", "e">>
          [] chunk = "service" -> <<"s", "e", "r", "v", "i", "c", "e">>
          [] chunk = "latest" -> <<"l", "a", "t", "e", "s", "t">>
          [] chunk = "v1" -> <<"v", "1">>
          [] chunk = "d1" -> <<"d", "1">>
          [] chunk = "d2" -> <<"d", "2">>
          [] chunk = "%zz" -> <<"%", "z", "z">>]

\* The text of a sequence of chunks.
RECURSIVE Flatten(_)
Flatten(chunks) ==
    IF chunks = <<>> THEN <<>>
    ELSE (IF Head(chunks) \in DOMAIN Spelled THEN Spelled[Head(chunks)]
          ELSE <<Head(chunks)>>)
             \o Flatten(Tail(chunks))

\* strings.HasPrefix
HasPrefix(s, prefix) ==
    Len(s) >= Len(prefix) /\ SubSeq(s, 1, Len(prefix)) = prefix

\* strings.Cut(s, c): the text before the first c (all of s without one)
\* and the text after it.
CutBefore(s, c) == IF Index(s, c) < 0 THEN s ELSE SubSeq(s, 1, Index(s, c))
CutAfter(s, c) == IF Index(s, c) < 0 THEN <<>> ELSE SubSeq(s, Index(s, c) + 2, Len(s))

\* The bytes below 0x20 and the byte 0x7F.
ControlBytes == {Bytes[n] : n \in 1..32} \cup {Bytes[128]}

\* The bytes from 0x80 on.
HighBytes == {Bytes[n] : n \in 129..256}

\* url.stringContainsCTLByte: a byte below 0x20 or the byte 0x7F.
stringContainsCTLByte(s) == \E i \in DOMAIN s : s[i] \in ControlBytes

HexDigits ==
    Digits \cup {"a", "b", "c", "d", "e", "f", "A", "B", "C", "D", "E", "F"}

\* url.ishex
ishex(c) == c \in HexDigits

\* The value of two hexadecimal digits.
unhex(c) ==
    IF c \in Digits THEN ByteOf(c) - 48
    ELSE IF c \in {"a", "b", "c", "d", "e", "f"} THEN ByteOf(c) - 87
    ELSE ByteOf(c) - 55

\* Every "%" of s is followed by two hexadecimal digits: what url.unescape
\* asks of a path, of a fragment and of a user or password.
ValidEscapes(s) ==
    \A i \in DOMAIN s :
        s[i] = "%" => i + 2 <= Len(s) /\ ishex(s[i + 1]) /\ ishex(s[i + 2])

\* The characters that url.shouldEscape lets stand in a host.
HostChars ==
    Letters \cup Digits
        \cup {"!", "$", "&", "'", "(", ")", "*", "+", ",", ";", "=", ":", "[", "]",
              "<", ">", Quote, "-", "_", ".", "~"}

\* url.unescape(s, encodeHost) returns a nil error: an escape is %25 or
\* stands for a byte from 0x80 on, and a byte below 0x80 is a host character.
ValidHost(s) ==
    /\ ValidEscapes(s)
    /\ \A i \in DOMAIN s :
          IF s[i] = "%"
          THEN unhex(s[i + 1]) >= 8 \/ <<s[i + 1], s[i + 2]>> = <<"2", "5">>
          ELSE s[i] \in HighBytes \/ s[i] \in HostChars

\* url.unescape(s, encodeZone) returns a nil error: an escape is %25 or
\* stands for a blank or a host character.
ValidZone(s) ==
    /\ ValidEscapes(s)
    /\ \A i \in DOMAIN s :
          IF s[i] = "%"
          THEN \/ <<s[i + 1], s[i + 2]>> = <<"2", "5">>
               \/ <<s[i + 1], s[i + 2]>> = <<"2", "0">>
               \/ Bytes[16 * unhex(s[i + 1]) + unhex(s[i + 2]) + 1] \in HostChars
          ELSE s[i] \in HighBytes \/ s[i] \in HostChars

\* url.validOptionalPort
validOptionalPort(port) ==
    port = <<>> \/ (port[1] = ":" /\ \A i \in 2..Len(port) : port[i] \in Digits)

\* strings.Index(s, "%25"): 0-based index of the first "%25" in s, -1 if none.
IndexZone(s) ==
    IF \E k \in 1..(Len(s) - 2) : SubSeq(s, k, k + 2) = <<"%", "2", "5">>
    THEN (CHOOSE k \in 1..(Len(s) - 2) :
              /\ SubSeq(s, k, k + 2) = <<"%", "2", "5">>
              /\ \A l \in 1..(k - 1) : SubSeq(s, l, l + 2) # <<"%", "2", "5">>) - 1
    ELSE -1

\* url.parseHost on an IP literal, i being the index of its last "]" and
\* zone the index of "%25" in the text before it.
ParsesLiteral(host, i, zone) ==
    /\ i >= 0
    /\ validOptionalPort(SubSeq(host, i + 2, Len(host)))
    /\ IF zone >= 0
       THEN /\ ValidHost(SubSeq(host, 1, zone))
            /\ ValidZone(SubSeq(host, zone + 1, i))
            /\ ValidHost(SubSeq(host, i + 1, Len(host)))
       ELSE ValidHost(host)

\* url.parseHost returns a nil error.
parseHost(host) ==
    IF HasPrefix(host, <<"[">>)
    THEN ParsesLiteral(host, LastIndex(host, "]"),
                       IndexZone(SubSeq(host, 1, LastIndex(host, "]"))))
    ELSE /\ LastIndex(host, ":") >= 0 =>
                validOptionalPort(SubSeq(host, LastIndex(host, ":") + 1, Len(host)))
         /\ ValidHost(host)

\* The characters that url.validUserinfo accepts.
UserinfoChars ==
    Letters \cup Digits
        \cup {"-", ".", "_", ":", "~", "!", "$", "&", "'", "(", ")", "*", "+", ",",
              ";", "=", "%", "@"}

\* url.validUserinfo
validUserinfo(s) == \A i \in DOMAIN s : s[i] \in UserinfoChars

\* url.parseAuthority returns a nil error.
parseAuthority(authority) ==
    IF LastIndex(authority, "@") < 0 THEN parseHost(authority)
    ELSE /\ parseHost(SubSeq(authority, LastIndex(authority, "@") + 2, Len(authority)))
         /\ validUserinfo(SubSeq(authority, 1, LastIndex(authority, "@")))
         /\ ValidEscapes(SubSeq(authority, 1, LastIndex(authority, "@")))

\* The characters of a scheme besides the letters.
SchemeChars == Digits \cup {"+", "-", "."}

\* url.getScheme: the 1-based index of the colon that ends the scheme, 0
\* when the URL has no scheme, -1 for the error "missing protocol scheme".
RECURSIVE getScheme(_, _)
getScheme(rawURL, i) ==
    IF i > Len(rawURL) THEN 0
    ELSE IF rawURL[i] \in Letters THEN getScheme(rawURL, i + 1)
    ELSE IF rawURL[i] \in SchemeChars
    THEN (IF i = 1 THEN 0 ELSE getScheme(rawURL, i + 1))
    ELSE IF rawURL[i] = ":" THEN (IF i = 1 THEN -1 ELSE i)
    ELSE 0

\* url.parse past getScheme and the cut at "?": rest is the URL without its
\* scheme and its query.
ParsesRest(scheme, rest) ==
    IF ~HasPrefix(rest, <<"/">>) /\ scheme
    THEN TRUE
    ELSE IF ~HasPrefix(rest, <<"/">>) /\ Index(CutBefore(rest, "/"), ":") >= 0
    THEN FALSE
    ELSE IF (scheme \/ ~HasPrefix(rest, <<"/", "/", "/">>)) /\ HasPrefix(rest, <<"/", "/">>)
    THEN /\ parseAuthority(CutBefore(SubSeq(rest, 3, Len(rest)), "/"))
         /\ ValidEscapes(CutAfter(SubSeq(rest, 3, Len(rest)), "/"))
    ELSE ValidEscapes(rest)

\* url.parse returns a nil error; k is what getScheme returned.
ParsesFrom(rawURL, k) ==
    IF stringContainsCTLByte(rawURL) THEN FALSE
    ELSE IF rawURL = <<"*">> THEN TRUE
    ELSE IF k < 0 THEN FALSE
    ELSE ParsesRest(k > 0, CutBefore(SubSeq(rawURL, k + 1, Len(rawURL)), "?"))

\* url.Parse returns a nil error: the URL up to its first "#" parses and
\* the fragment after it holds valid escapes.
Parses(rawURL) ==
    /\ ParsesFrom(CutBefore(rawURL, "#"), getScheme(CutBefore(rawURL, "#"), 1))
    /\ ValidEscapes(CutAfter(rawURL, "#"))

\* tokenRequestURLFromResponse: header[:7] panics on a header shorter than 7.
\* url.Values.Encode writes the parameters sorted by key, their values
\* escaped.
\* The body of tokenRequestURLFromResponse past the check of the scheme,
\* instructions being the pairs extracted from the header.
TokenRequestURL(instructions) ==
    IF KeyRealm \notin DOMAIN instructions THEN [out |-> "err", url |-> <<>>]
    ELSE IF KeyService \notin DOMAIN instructions THEN [out |-> "err", url |-> <<>>]
    ELSE IF KeyScope \notin DOMAIN instructions THEN [out |-> "err", url |-> <<>>]
    ELSE [out |-> "ok",
          url |-> instructions[KeyRealm] \o <<"?", "scope", "=">>
                      \o QueryEscape(instructions[KeyScope])
                      \o <<"&", "service", "=">>
                      \o QueryEscape(instructions[KeyService])]

tokenRequestURLFromResponse(deniedResponse) ==
    IF Len(deniedResponse.www) < Len(BearerPrefix) THEN [out |-> "panic", url |-> <<>>]
    ELSE IF SubSeq(deniedResponse.www, 1, Len(BearerPrefix)) # BearerPrefix
    THEN [out |-> "err", url |-> <<>>]
    ELSE TokenRequestURL(extractKeyValuePairs(deniedResponse.www))

\* The Authorization header of a request of the client: SetBasicAuth, then
\* Header.Set("Authorization", "Bearer "+token), which replaces it.
BasicAuth(api) == IF api.user # "" THEN <<"Basic", api.user, api.pass>> ELSE <<>>

\* API.registryRequest: out is "err" when http.NewRequest fails, and req is
\* then no request; otherwise req is the request it hands to client.Do.
registryRequest(api, method, p, version) ==
    IF ~Parses(api.host \o Flatten(p)) THEN [out |-> "err", req |-> <<>>]
    ELSE [out |-> "ok",
          req |-> [kind |-> "registry", method |-> method, path |-> p,
                   accept |-> manifestContentType[version],
                   auth |-> IF api.bearerToken # "" THEN <<"Bearer", api.bearerToken>>
                            ELSE BasicAuth(api)]]

(***************************************************************************)
(* API.fetchBearerToken.  answers are the replies of the servers to the    *)
(* requests still to be sent, in order; out is "pending" when the call     *)
(* waits for a reply that answers does not hold.                           *)
(***************************************************************************)
\* The request fetchBearerToken sends to the token service at u.
TokenRequest(api, u) ==
    [kind |-> "token", method |-> "GET", path |-> u, accept |-> "",
     auth |-> BasicAuth(api)]

\* fetchBearerToken past tokenRequestURLFromResponse: req is the request to
\* the token service.
FetchFrom(req, answers) ==
    IF answers = <<>> THEN [out |-> "pending", token |-> "", sent |-> <<req>>]
    ELSE IF answers[1].err THEN [out |-> "err", token |-> "", sent |-> <<req>>]
    ELSE IF answers[1].status >= 300
    THEN [out |-> "err", token |-> "", sent |-> <<req>>]
    ELSE IF ~answers[1].body.json
    THEN [out |-> "err", token |-> "", sent |-> <<req>>]
    ELSE [out |-> "ok",
          token |-> IF "token" \in DOMAIN answers[1].body
                    THEN answers[1].body.token ELSE "",
          sent |-> <<req>>]

\* fetchBearerToken past tokenRequestURLFromResponse, which returned u: the
\* call of http.NewRequest and the rest.
FetchAt(api, u, answers) ==
    IF u.out # "ok" THEN [out |-> u.out, token |-> "", sent |-> <<>>]
    ELSE IF ~Parses(Flatten(u.url)) THEN [out |-> "err", token |-> "", sent |-> <<>>]
    ELSE FetchFrom(TokenRequest(api, u.url), answers)

fetchBearerToken(api, deniedResponse, answers) ==
    FetchAt(api, tokenRequestURLFromResponse(deniedResponse), answers)

(***************************************************************************)
(* API.request.  The result holds the outcome (ok, err, panic, pending),   *)
(* the response returned, the client's bearerToken after the call and the  *)
(* requests the call put on the wire.                                      *)
(***************************************************************************)
Returned(out, resp, token, wire, answers) ==
    [out |-> out, resp |-> resp, token |-> token, sent |-> wire,
     answers |-> answers]

\* API.request from the second registryRequest on: f is what
\* fetchBearerToken returned with a nil error, wire the requests sent so far.
Reissue(m2, f, wire, answers) ==
    IF m2.out # "ok"
    THEN Returned("err", NilResp, f.token, wire, answers)
    ELSE IF Len(answers) < 3
    THEN Returned("pending", NilResp, f.token, wire \o <<m2.req>>, answers)
    ELSE IF answers[3].err
    THEN Returned("err", NilResp, f.token, wire \o <<m2.req>>, answers)
    ELSE IF answers[3].status >= 300
    THEN Returned("err", answers[3], f.token, wire \o <<m2.req>>, answers)
    ELSE Returned("ok", answers[3], f.token, wire \o <<m2.req>>, answers)

\* API.request from the call of fetchBearerToken on: m1 is what the first
\* registryRequest built and sent, f what fetchBearerToken returned.
Reauthenticate(api, method, p, version, answers, m1, f) ==
    IF f.out # "ok"
    THEN Returned(f.out, answers[1], api.bearerToken, <<m1.req>> \o f.sent, answers)
    ELSE Reissue(registryRequest([api EXCEPT !.bearerToken = f.token],
                                 method, p, version),
                 f, <<m1.req>> \o f.sent, answers)

\* A variant of the test that takes any reply with a challenge header for a
\* challenge, whatever its status.
ChallengedAnyStatus(resp) == resp.www # <<>>

\* API.request: resp.StatusCode == 401 && resp.Header.Get(wwwAuthenticateHeader) != ""
Challenged(resp) == resp.status = 401 /\ resp.www # <<>>

\* A variant of API.request that starts over after storing the token, so
\* that a second challenge is answered like the first.
RECURSIVE requestStartingOver(_, _, _, _, _)
StartOver(f, m1, again, answers) ==
    Returned(again.out, again.resp, again.token, <<m1.req>> \o f.sent \o again.sent,
             answers)

ReauthenticateOver(api, method, p, version, answers, m1, f) ==
    IF f.out # "ok"
    THEN Returned(f.out, answers[1], api.bearerToken, <<m1.req>> \o f.sent, answers)
    ELSE StartOver(f, m1,
                   requestStartingOver([api EXCEPT !.bearerToken = f.token],
                                       method, p, version,
                                       SubSeq(answers, 3, Len(answers))),
                   answers)

AnsweredOver(api, method, p, version, answers, m1) ==
    IF m1.out # "ok"
    THEN Returned("err", NilResp, api.bearerToken, <<>>, answers)
    ELSE IF answers = <<>>
    THEN Returned("pending", NilResp, api.bearerToken, <<m1.req>>, answers)
    ELSE IF answers[1].err
    THEN Returned("err", NilResp, api.bearerToken, <<m1.req>>, answers)
    ELSE IF answers[1].status < 300
    THEN Returned("ok", answers[1], api.bearerToken, <<m1.req>>, answers)
    ELSE IF answers[1].status = 401 /\ answers[1].www # <<>>
    THEN ReauthenticateOver(api, method, p, version, answers, m1,
                            fetchBearerToken(api, answers[1], Tail(answers)))
    ELSE Returned("err", answers[1], api.bearerToken, <<m1.req>>, answers)

requestStartingOver(api, method, p, version, answers) ==
    AnsweredOver(api, method, p, version, answers,
                 registryRequest(api, method, p, version))

\* API.request past the call of the first registryRequest, m1 being what
\* it built: nothing is sent when http.NewRequest failed.
Answered(api, method, p, version, answers, m1) ==
    IF m1.out # "ok"
    THEN Returned("err", NilResp, api.bearerToken, <<>>, answers)
    ELSE IF answers = <<>>
    THEN Returned("pending", NilResp, api.bearerToken, <<m1.req>>, answers)
    ELSE IF answers[1].err
    THEN Returned("err", NilResp, api.bearerToken, <<m1.req>>, answers)
    ELSE IF answers[1].status < 300
    THEN Returned("ok", answers[1], api.bearerToken, <<m1.req>>, answers)
    ELSE IF Challenged(answers[1])
    THEN Reauthenticate(api, method, p, version, answers, m1,
                        fetchBearerToken(api, answers[1], Tail(answers)))
    ELSE Returned("err", answers[1], api.bearerToken, <<m1.req>>, answers)

request(api, method, p, version, answers) ==
    Answered(api, method, p, version, answers,
             registryRequest(api, method, p, version))

\* The calls of API.request that come to an end within MaxReplies replies:
\* one for every sequence of replies in which each request the call sent got
\* exactly one reply, a token request from the token service (Ts) and a
\* registry request from the registry (Rs); a call that sends no request
\* ends without a reply.  The first registryRequest does not depend on the
\* replies and is built once: request(api, method, p, version, answers) is
\* Answered(api, method, p, version, answers, m1).
Calls(api, method, p, version, Rs, Ts) ==
    LET m1 == registryRequest(api, method, p, version)
        from(c) == IF c.sent[Len(c.sent)].kind = "token" THEN Ts ELSE Rs
        Step(C) ==
            UNION {{Answered(api, method, p, version, c.answers \o <<r>>, m1) :
                        r \in from(c)} : c \in {x \in C : x.out = "pending"}}
        RECURSIVE Grow(_, _)
        Grow(C, n) ==
            IF n = 0 \/ C = {} THEN {}
            ELSE {c \in C : c.out # "pending"} \cup Grow(Step(C), n - 1)
    IN  Grow({Answered(api, method, p, version, <<>>, m1)}, MaxReplies + 1)

(***************************************************************************)
(* The replies the servers of the model can give.                          *)
(***************************************************************************)
KV(k, v) == k \o <<"=", Quote>> \o v \o <<Quote>>

\* The URL of the token service of the model: http://r
Realm == <<"h", "t", "t", "p", ":", "/", "/", "r">>

\* Bearer realm="http://r",service="s",scope="p:l"
ChValid ==
    BearerPrefix \o KV(KeyRealm, Realm) \o <<",">> \o KV(KeyService, <<"s">>)
        \o <<",">> \o KV(KeyScope, <<"p", ":", "l">>)

\* Bearer realm=":",service="s",scope="p:l", whose realm is no URL.
ChBadRealm ==
    BearerPrefix \o KV(KeyRealm, <<":">>) \o <<",">> \o KV(KeyService, <<"s">>)
        \o <<",">> \o KV(KeyScope, <<"p", ":", "l">>)

\* Basic
ChShort == <<"B","a","s","i","c">>

\* Basic realm="r"
ChBasic == <<"B","a","s","i","c"," ">> \o KV(KeyRealm, <<"r">>)

\* Bearer realm="r",service="s"
ChNoScope ==
    BearerPrefix \o KV(KeyRealm, <<"r">>) \o <<",">> \o KV(KeyService, <<"s">>)

Challenges == {<<>>, ChValid, ChShort, ChBasic, ChNoScope, ChBadRealm}

Tokens == {"t1", "t2"}

OKStatuses == {200}
FailStatuses == {300, 401}

\* The replies of the registry to a request whose successful replies carry
\* one of Payloads (records of link, digest, body).
Replies(Payloads, Chs) ==
    {ErrReply}
        \cup {HTTPReply(st, <<>>, pl.link, pl.digest, pl.body) :
                  st \in OKStatuses, pl \in Payloads}
        \cup {HTTPReply(st, ch, <<>>, "", BadJSON) : st \in FailStatuses, ch \in Chs}

\* The replies of the token service, Bodies being the bodies of its
\* successful replies.
TokenReplies(Bodies) ==
    {ErrReply, HTTPReply(401, <<>>, <<>>, "", BadJSON)}
        \cup {HTTPReply(st, <<>>, <<>>, "", b) : st \in OKStatuses, b \in Bodies}

TokenBody(t) == [json |-> TRUE, token |-> t]

DriverTokenBodies == {BadJSON, EmptyObject} \cup {TokenBody(t) : t \in Tokens}

\* The reply is an HTTP reply with a success status.
Succeeds(reply) == ~reply.err /\ reply.status < 300

\* The reply is a token service's answer that holds a non-empty token.
IssuesToken(reply) ==
    /\ ~reply.err
    /\ reply.status < 300
    /\ reply.body.json
    /\ "token" \in DOMAIN reply.body
    /\ reply.body.token # ""

(***************************************************************************)
(* The client on its own: a driver that calls API.request on one client,   *)
(* MaxCalls times, with any replies of the servers.                        *)
(***************************************************************************)
NoCall == [out |-> "none"]

Ops ==
    {[method |-> "GET", path |-> <<"/v2/", "a", "/manifests/", "v1">>,
      version |-> manifestV1],
     [method |-> "DELETE", path |-> <<"/v2/", "b", "/manifests/", "d1">>,
      version |-> manifestV2]}

DriverPayloads ==
    {[link |-> <<>>, digest |-> d, body |-> EmptyObject] : d \in {"", "d1"}}

\* config.Host of the runs of the model: http://h
Host == <<"h", "t", "t", "p", ":", "/", "/", "h">>

\* NewAPI, and SetCredentials when a user is configured.
NewAPI(host, user, pass) ==
    [host |-> host, user |-> user, pass |-> pass, bearerToken |-> ""]

IdleRun ==
    /\ cfg = [Repos |-> {}, Tags |-> {}, MinAge |-> 0, Dry |-> FALSE]
    /\ path = <<>>
    /\ repositories = <<>>
    /\ pages = <<>>
    /\ ri = 0
    /\ tags = <<>>
    /\ ti = 0
    /\ result = <<>>
    /\ digests = <<>>
    /\ todo = {}
    /\ cur = ""
    /\ clock = 0
    /\ sent = <<>>
    /\ log = <<>>

InitRequest ==
    /\ \E user \in {"", "u"} : a = NewAPI(Host, user, IF user = "" THEN "" ELSE "pw")
    /\ pc = "client"
    /\ IdleRun
    /\ call = NoCall
    /\ ncalls = 0
    /\ obtained = ""
    /\ authed = FALSE
    /\ kvIn = <<>>
    /\ kvOut = <<>>

\* One call of API.request by the driver.  A panic ends the process.
DoRequest ==
    /\ pc = "client"
    /\ ncalls < MaxCalls
    /\ \E op \in Ops :
         \E c \in Calls(a, op.method, op.path, op.version,
                        Replies(DriverPayloads, Challenges),
                        TokenReplies(DriverTokenBodies)) :
            /\ a' = [a EXCEPT !.bearerToken = c.token]
            /\ call' = [out |-> c.out, resp |-> c.resp, token |-> c.token,
                        sent |-> c.sent, answers |-> c.answers,
                        method |-> op.method, path |-> op.path,
                        version |-> op.version, before |-> a.bearerToken,
                        held |-> obtained, authed |-> authed]
            /\ obtained' = IF Len(c.answers) >= 2 /\ IssuesToken(c.answers[2])
                           THEN c.answers[2].body.token ELSE obtained
            /\ authed' = (authed \/ (/\ Len(c.answers) = 3
                                      /\ IssuesToken(c.answers[2])
                                      /\ Succeeds(c.answers[3])))
            /\ pc' = IF c.out = "panic" THEN "panic" ELSE "client"
    /\ ncalls' = ncalls + 1
    /\ UNCHANGED <<kvIn, kvOut, cfg, path, repositories, pages, ri, tags, ti, result, digests,
                   todo, cur, clock, sent, log>>

NextRequest == DoRequest

SpecRequest == InitRequest /\ [][NextRequest]_vars

(***************************************************************************)
(* The run of main.                                                        *)
(***************************************************************************)
RepoNames == {"a", "b"}
TagNames == {"v1", "latest"}
\* The digests of the registry; "%zz" is one that no URL can hold.
DigestNames == {"d1", "d2", "%zz"}

\* time.Time{}, the value of a created field that the blob does not hold.
ZeroTime == 0

Times == ZeroTime..MaxClock

\* All sequences over S of length at most n.
SeqsUpTo(S, n) == UNION {[1..k -> S] : k \in 0..n}

\* A variant in which every expression matches every name.
MatchStringAny(expr, str) == TRUE

\* regexp.MatchString, the expression being the set of names it matches.
MatchString(expr, str) == str \in expr

\* A variant of allMatch that passes every slice.
allMatchAny(slice, expr) == TRUE

\* allMatch returns true if all strings in the given slice matches the given expr.
allMatch(slice, expr) == \A k \in DOMAIN slice : MatchString(expr, slice[k])

\* time.Time.After
After(t, u) == t > u

\* A variant of the age check that also passes over a manifest created
\* exactly config.MinAge ago.
TooYoungOrEqual(created, now, minAge) == created >= now - minAge

\* main: created.After(time.Now().Add(-1 * config.MinAge))
TooYoung(created, now, minAge) == After(created, now - minAge)

\* A variant of the grouping that replaces the slice of the digest.
AddTagReplacing(res, digest, tag) ==
    [d \in DOMAIN res \cup {digest} |-> IF d = digest THEN <<tag>> ELSE res[d]]

\* GetTagsIndexedByDigest: result[digest] = append(result[digest], tag)
AddTag(res, digest, tag) ==
    [d \in DOMAIN res \cup {digest} |->
        IF d = digest
        THEN (IF d \in DOMAIN res THEN Append(res[d], tag) ELSE <<tag>>)
        ELSE res[d]]

\* The decoded list field of a JSON body; an absent field decodes to nil.
ListField(body, field) == IF field \in DOMAIN body THEN body[field] ELSE <<>>

\* GetManifestDigestAndCreated, from the response on: manifest.History[0]
\* panics on an empty history; the blob of the first entry is decoded again.
ManifestCreated(resp) ==
    LET history == ListField(resp.body, "history")
    IN  IF ~resp.body.json THEN [out |-> "err", created |-> ZeroTime]
        ELSE IF history = <<>> THEN [out |-> "panic", created |-> ZeroTime]
        ELSE IF ~history[1].json THEN [out |-> "err", created |-> ZeroTime]
        ELSE [out |-> "ok",
              created |-> IF "created" \in DOMAIN history[1]
                          THEN history[1].created ELSE ZeroTime]

CatalogPath == <<"/v2/_catalog">>
TagsPath(repository) == <<"/v2/", repository, "/tags/list">>
ManifestPath(repository, ref) == <<"/v2/", repository, "/manifests/", ref>>

\* main: the arguments of api.GetManifestCreated and api.DeleteManifest.
CreatedRefLast(digest, group) == group[Len(group)]
CreatedRef(digest, group) == group[1]
DeleteRefByTag(digest, group) == group[1]
DeleteRef(digest, group) == digest

(***************************************************************************)
(* What the registry can answer to each kind of request of the run.        *)
(***************************************************************************)
Empty == [link |-> <<>>, digest |-> "", body |-> EmptyObject]

Links == SeqsUpTo({"<", ">", "n"}, 3)

RunLinks == {<<>>, <<"<", "n", ">">>, <<"<", ">">>, <<"n">>}

CatalogPayloads(Ls) ==
    {[link |-> <<>>, digest |-> "", body |-> BadJSON]}
        \cup {[link |-> l, digest |-> "",
               body |-> [json |-> TRUE, repositories |-> rs]] :
                  l \in Ls, rs \in SeqsUpTo(RepoNames, MaxPageLen)}

TagsPayloads(n) ==
    {[link |-> <<>>, digest |-> "", body |-> BadJSON]}
        \cup {[link |-> <<>>, digest |-> "", body |-> [json |-> TRUE, tags |-> ts]] :
                  ts \in SeqsUpTo(TagNames, n)}

\* The digests of the registry of a paginated catalog.
RunDigestNames == {"d1", "%zz"}

DigestPayloads(Ds) == {[link |-> <<>>, digest |-> d, body |-> EmptyObject] : d \in Ds}

ManifestBodies ==
    {BadJSON, [json |-> TRUE, history |-> <<>>],
     [json |-> TRUE, history |-> <<BadJSON>>],
     [json |-> TRUE, history |-> <<EmptyObject>>]}
        \cup {[json |-> TRUE, history |-> <<[json |-> TRUE, created |-> c]>>] :
                  c \in Times \ {ZeroTime}}

ManifestPayloads == {[link |-> <<>>, digest |-> "d1", body |-> b] : b \in ManifestBodies}

DeletePayloads == {Empty}

\* The number of token requests among the requests in wire.
TokenRequests(wire) == Cardinality({k \in DOMAIN wire : wire[k].kind = "token"})

\* The registry of the run challenges with a header the client can answer
\* at most MaxAuth times.
RunChallenges == {<<>>, ChShort} \cup (IF TokenRequests(sent) < MaxAuth THEN {ChValid} ELSE {})

RunTokenBodies == {BadJSON, EmptyObject, TokenBody("t1")}

RunCalls(method, p, version, Payloads) ==
    Calls(a, method, p, version, Replies(Payloads, RunChallenges),
          TokenReplies(RunTokenBodies))

(***************************************************************************)
(* The entries of log.  Besides the lines main prints ("fatal", "error" for *)
(* a repository, "lookup-failed" and "delete-failed" for a group,          *)
(* "inspecting", "would-delete", "deleting", "done") it records the groups *)
(* main passes over without a line ("skip-tags", "skip-age").              *)
(***************************************************************************)
Line(ev, repository) == [ev |-> ev, repo |-> repository, at |-> ri]

GroupLine(ev, digest, looked, created, now) ==
    [ev |-> ev, repo |-> repositories[ri], at |-> ri, digest |-> digest,
     tags |-> result[digest], looked |-> looked, created |-> created, now |-> now]

\* A variant of the branch that deletes in dry mode too.
VerdictIgnoringDry(dry) == [ev |-> "deleting", pc |-> "delete"]

\* main: the branch on config.Dry for a group that passed the filters: the
\* line logged and whether api.DeleteManifest is called.
Verdict(dry) ==
    IF dry THEN [ev |-> "would-delete", pc |-> "group"]
    ELSE [ev |-> "deleting", pc |-> "delete"]

\* A variant of main that goes on after api.GetRepositories failed.
CatalogFailureIgnored == "repo"

\* main: log.Fatal(err) after api.GetRepositories failed.
CatalogFailure == "fatal"

\* A variant of the failure of a group in which main sends the DELETE for
\* the group again.
UnitFailureReissuing(unit) == IF unit = "group" THEN "delete" ELSE unit

\* main: log.Print(err); continue
UnitFailure(unit) == unit

\* A variant of the failure of a digest lookup in which main goes on with
\* the groups built from the tags looked up before it.
LookupFailureKeepingGroups(res) ==
    [pc |-> "group", ri |-> ri, result |-> res, todo |-> DOMAIN res]

\* GetTagsIndexedByDigest: return nil, err after a.GetDigest failed, and
\* main: log.Print(err); continue.
LookupFailure(res) ==
    [pc |-> UnitFailure("repo"), ri |-> ri + 1, result |-> <<>>, todo |-> {}]

\* The effect of a call of API.request on the client and on the wire.
Wire(c) ==
    /\ a' = [a EXCEPT !.bearerToken = c.token]
    /\ sent' = sent \o c.sent

Configs ==
    [Repos : {{"a"}, RepoNames}, Tags : {{"v1"}, TagNames}, MinAge : {-1, 0, 2},
     Dry : BOOLEAN]

InitRun ==
    /\ a = NewAPI(Host, "", "")
    /\ cfg \in {c \in Configs : c.MinAge >= 0 /\ c.Tags = {"v1"}}
    /\ pc = "catalog"
    /\ path = CatalogPath
    /\ repositories = <<>>
    /\ pages = <<>>
    /\ ri = 0
    /\ tags = <<>>
    /\ ti = 0
    /\ result = <<>>
    /\ digests = <<>>
    /\ todo = {}
    /\ cur = ""
    /\ clock = MaxClock - 1
    /\ sent = <<>>
    /\ log = <<>>
    /\ call = NoCall
    /\ ncalls = 0
    /\ obtained = ""
    /\ authed = FALSE
    /\ kvIn = <<>>
    /\ kvOut = <<>>

\* API.GetRepositories: one turn of its loop, and its return to main.  The
\* catalog has at most MaxPages pages; Ls are the Link headers of the others.
GetRepositories(Ls) ==
    /\ pc = "catalog"
    /\ \E c \in RunCalls("GET", path, manifestV2,
                         CatalogPayloads(IF Len(pages) + 1 < MaxPages THEN Ls ELSE {<<>>})) :
         LET names == ListField(c.resp.body, "repositories")
             np == nextPagePath(c.resp)
             page == [path |-> path, link |-> c.resp.link, names |-> names]
         IN  /\ Wire(c)
             /\ IF c.out = "panic"
                THEN /\ pc' = "panic"
                     /\ UNCHANGED <<path, repositories, pages, ri, log>>
                ELSE IF c.out = "err" \/ ~c.resp.body.json
                THEN /\ pc' = CatalogFailure
                     /\ repositories' = <<>>
                     /\ log' = Append(log, Line("fatal", ""))
                     /\ UNCHANGED <<path, pages, ri>>
                ELSE IF np.out = "panic"
                THEN /\ pc' = "panic"
                     /\ repositories' = repositories \o names
                     /\ pages' = Append(pages, page)
                     /\ UNCHANGED <<path, ri, log>>
                ELSE /\ repositories' = repositories \o names
                     /\ pages' = Append(pages, page)
                     /\ path' = np.path
                     /\ pc' = IF np.path # <<>> THEN "catalog" ELSE "repo"
                     /\ ri' = 1
                     /\ UNCHANGED log
    /\ UNCHANGED <<kvIn, kvOut, cfg, tags, ti, result, digests, todo, cur, clock, call, ncalls,
                   obtained, authed>>

\* main: the head of the loop over the repositories, and the end of main.
NextRepository ==
    /\ pc = "repo"
    /\ IF ri > Len(repositories)
       THEN /\ pc' = "done"
            /\ log' = Append(log, Line("done", ""))
       ELSE IF ~MatchString(cfg.Repos, repositories[ri])
       THEN /\ ri' = ri + 1
            /\ UNCHANGED <<pc, log>>
       ELSE /\ pc' = "tags"
            /\ log' = Append(log, Line("inspecting", repositories[ri]))
            /\ UNCHANGED ri
    /\ IF ri > Len(repositories) THEN UNCHANGED ri ELSE TRUE
    /\ UNCHANGED <<kvIn, kvOut, a, cfg, path, repositories, pages, tags, ti, result, digests,
                   todo, cur, clock, sent, call, ncalls, obtained,
                   authed>>

\* API.GetTagsIndexedByDigest: the call of API.GetTags.  The repository
\* has at most n tags.
GetTags(n) ==
    /\ pc = "tags"
    /\ \E c \in RunCalls("GET", TagsPath(repositories[ri]), manifestV2, TagsPayloads(n)) :
         LET list == ListField(c.resp.body, "tags")
         IN  /\ Wire(c)
             /\ IF c.out = "panic"
                THEN /\ pc' = "panic"
                     /\ UNCHANGED <<ri, tags, ti, result, digests, todo, log>>
                ELSE IF c.out = "err" \/ ~c.resp.body.json
                THEN /\ pc' = UnitFailure("repo")
                     /\ ri' = ri + 1
                     /\ log' = Append(log, Line("error", repositories[ri]))
                     /\ tags' = <<>>
                     /\ ti' = 0
                     /\ result' = <<>>
                     /\ digests' = <<>>
                     /\ todo' = {}
                ELSE /\ tags' = list
                     /\ ti' = 1
                     /\ result' = <<>>
                     /\ digests' = <<>>
                     /\ todo' = {}
                     /\ pc' = IF list # <<>> THEN "digest" ELSE "group"
                     /\ UNCHANGED <<ri, log>>
    /\ UNCHANGED <<kvIn, kvOut, cfg, path, repositories, pages, cur, clock, call, ncalls, obtained,
                   authed>>

\* API.GetTagsIndexedByDigest: one turn of its loop over the tags (the call
\* of API.GetDigest and the grouping), and its return to main.  Ds are the
\* digests the registry can answer with.
GetDigest(Ds) ==
    /\ pc = "digest"
    /\ \E c \in RunCalls("HEAD", ManifestPath(repositories[ri], tags[ti]), manifestV2,
                         DigestPayloads(Ds)) :
         LET grouped == AddTag(result, c.resp.digest, tags[ti])
         IN  /\ Wire(c)
             /\ IF c.out = "panic"
                THEN /\ pc' = "panic"
                     /\ UNCHANGED <<ri, ti, result, digests, todo, log>>
                ELSE IF c.out = "err"
                THEN /\ pc' = LookupFailure(result).pc
                     /\ ri' = LookupFailure(result).ri
                     /\ result' = LookupFailure(result).result
                     /\ todo' = LookupFailure(result).todo
                     /\ log' = Append(log, Line("error", repositories[ri]))
                     /\ UNCHANGED <<ti, digests>>
                ELSE /\ result' = grouped
                     /\ digests' = Append(digests, c.resp.digest)
                     /\ ti' = ti + 1
                     /\ todo' = IF ti < Len(tags) THEN {} ELSE DOMAIN grouped
                     /\ pc' = IF ti < Len(tags) THEN "digest" ELSE "group"
                     /\ UNCHANGED <<ri, log>>
    /\ UNCHANGED <<kvIn, kvOut, cfg, path, repositories, pages, tags, cur, clock, call, ncalls,
                   obtained, authed>>

\* main: the head of the loop over the map (Go ranges over it in any order),
\* the tag filter and, without a minimum age, the branch on config.Dry.
NextGroup ==
    /\ pc = "group"
    /\ IF todo = {}
       THEN /\ pc' = "repo"
            /\ ri' = ri + 1
            /\ UNCHANGED <<todo, cur, log>>
       ELSE \E digest \in todo :
              /\ todo' = todo \ {digest}
              /\ cur' = digest
              /\ UNCHANGED ri
              /\ IF ~allMatch(result[digest], cfg.Tags)
                 THEN /\ log' = Append(log, GroupLine("skip-tags", digest, FALSE, ZeroTime, clock))
                      /\ UNCHANGED pc
                 ELSE IF cfg.MinAge > 0
                 THEN /\ pc' = "created"
                      /\ UNCHANGED log
                 ELSE /\ pc' = Verdict(cfg.Dry).pc
                      /\ log' = Append(log, GroupLine(Verdict(cfg.Dry).ev, digest, FALSE,
                                                      ZeroTime, clock))
    /\ UNCHANGED <<kvIn, kvOut, a, cfg, path, repositories, pages, tags, ti, result, digests,
                   clock, sent, call, ncalls, obtained,
                   authed>>

\* main: api.GetManifestCreated for the group, the age check against
\* time.Now() and the branch on config.Dry.  call keeps what API.request
\* returned to GetManifestDigestAndCreated, what it sent and was answered,
\* and for which group.
GetManifestCreated ==
    /\ pc = "created"
    /\ \E c \in RunCalls("GET",
                         ManifestPath(repositories[ri], CreatedRef(cur, result[cur])),
                         manifestV1, ManifestPayloads) :
         LET m == ManifestCreated(c.resp)
         IN  /\ Wire(c)
             /\ call' = [out |-> c.out, resp |-> c.resp, digest |-> cur,
                         sent |-> c.sent, answers |-> c.answers]
             /\ IF c.out = "panic" \/ (c.out = "ok" /\ m.out = "panic")
                THEN /\ pc' = "panic"
                     /\ UNCHANGED <<clock, log>>
                ELSE IF c.out = "err" \/ m.out = "err"
                THEN /\ pc' = UnitFailure("group")
                     /\ log' = Append(log, GroupLine("lookup-failed", cur, FALSE, ZeroTime,
                                                     clock))
                     /\ UNCHANGED clock
                ELSE \E now \in clock..MaxClock :
                       /\ clock' = now
                       /\ IF TooYoung(m.created, now, cfg.MinAge)
                          THEN /\ pc' = "group"
                               /\ log' = Append(log, GroupLine("skip-age", cur, TRUE,
                                                               m.created, now))
                          ELSE /\ pc' = Verdict(cfg.Dry).pc
                               /\ log' = Append(log, GroupLine(Verdict(cfg.Dry).ev, cur, TRUE,
                                                               m.created, now))
    /\ UNCHANGED <<kvIn, kvOut, cfg, path, repositories, pages, ri, tags, ti, result, digests,
                   todo, cur, ncalls, obtained, authed>>

\* main: api.DeleteManifest(repository, digest); a failure is logged.
DeleteManifest ==
    /\ pc = "delete"
    /\ \E c \in RunCalls("DELETE",
                         ManifestPath(repositories[ri], DeleteRef(cur, result[cur])),
                         manifestV2, DeletePayloads) :
         /\ Wire(c)
         /\ IF c.out = "panic"
            THEN /\ pc' = "panic"
                 /\ UNCHANGED log
            ELSE IF c.out = "err"
            THEN /\ pc' = UnitFailure("group")
                 /\ log' = Append(log, GroupLine("delete-failed", cur, FALSE, ZeroTime,
                                                 clock))
            ELSE /\ pc' = "group"
                 /\ UNCHANGED log
    /\ UNCHANGED <<kvIn, kvOut, cfg, path, repositories, pages, ri, tags, ti, result, digests,
                   todo, cur, clock, call, ncalls, obtained,
                   authed>>

Next ==
    \/ GetRepositories(RunLinks)
    \/ NextRepository
    \/ GetTags(MaxRunTags)
    \/ GetDigest(RunDigestNames)
    \/ NextGroup
    \/ GetManifestCreated
    \/ DeleteManifest

Spec == InitRun /\ [][Next]_vars

(***************************************************************************)
(* GetRepositories on its own, with every Link header of up to three       *)
(* characters.                                                             *)
(***************************************************************************)
NextCatalog == GetRepositories(Links)

SpecCatalog == InitRun /\ [][NextCatalog]_vars

(***************************************************************************)
(* The run from the return of GetRepositories on, for a catalog of one     *)
(* page and one repository, which has up to MaxTags tags.                  *)
(***************************************************************************)
InitRepo ==
    /\ a = NewAPI(Host, "", "")
    /\ cfg \in {c \in Configs : c.Repos = {"a"}}
    /\ pc = "repo"
    /\ path = <<>>
    /\ \E name \in RepoNames :
         /\ repositories = <<name>>
         /\ pages = <<[path |-> CatalogPath, link |-> <<>>, names |-> <<name>>]>>
    /\ ri = 1
    /\ tags = <<>>
    /\ ti = 0
    /\ result = <<>>
    /\ digests = <<>>
    /\ todo = {}
    /\ cur = ""
    /\ clock = MaxClock - 1
    /\ sent = <<registryRequest(a, "GET", CatalogPath, manifestV2).req>>
    /\ log = <<>>
    /\ call = NoCall
    /\ ncalls = 0
    /\ obtained = ""
    /\ authed = FALSE
    /\ kvIn = <<>>
    /\ kvOut = <<>>

NextRepo ==
    \/ NextRepository
    \/ GetTags(MaxTags)
    \/ GetDigest(DigestNames)
    \/ NextGroup
    \/ GetManifestCreated
    \/ DeleteManifest

SpecRepo == InitRepo /\ [][NextRepo]_vars

(***************************************************************************)
(* extractKeyValuePairs on its own, applied to headers made of pairs and   *)
(* to every text of up to MaxText characters of a small alphabet.          *)
(***************************************************************************)
PairKeys == {<<"a">>, <<"b", "_", "1">>}
PairValues == {<<>>, <<"x">>, <<"k", "=">>, <<",", " ", "y">>}
Separators == {<<",">>, <<",", " ">>}

\* The header that lists the pairs ps, sep after each comma-separated pair.
RECURSIVE Joined(_, _)
Joined(ps, sep) ==
    IF ps = <<>> THEN <<>>
    ELSE IF Len(ps) = 1 THEN KV(ps[1][1], ps[1][2])
    ELSE KV(ps[1][1], ps[1][2]) \o sep \o Joined(Tail(ps), sep)

PairHeaders ==
    {Joined(ps, sep) : ps \in SeqsUpTo(PairKeys \X PairValues, MaxPairs),
                       sep \in Separators}

TextHeaders == SeqsUpTo({"a", "=", Quote, ",", " "}, MaxText)

InitPairs ==
    /\ a = NewAPI(Host, "", "")
    /\ pc = "header"
    /\ IdleRun
    /\ kvIn \in PairHeaders \cup TextHeaders \cup {ChValid, ChBasic, ChNoScope}
    /\ kvOut = <<>>
    /\ call = NoCall
    /\ ncalls = 0
    /\ obtained = ""
    /\ authed = FALSE

\* One call of extractKeyValuePairs.
ExtractPairs ==
    /\ pc = "header"
    /\ kvOut' = extractKeyValuePairs(kvIn)
    /\ pc' = "pairs"
    /\ UNCHANGED <<a, cfg, path, repositories, pages, ri, tags, ti, result, digests,
                   todo, cur, clock, sent, log, call, ncalls, obtained, authed,
                   kvIn>>

NextPairs == ExtractPairs

SpecPairs == InitPairs /\ [][NextPairs]_vars

(***************************************************************************)
(* Properties of API.request, checked on the client driver (SpecRequest).  *)
(***************************************************************************)
Called == call.out # "none"

RegistryRequests(wire) == Cardinality({k \in DOMAIN wire : wire[k].kind = "registry"})

\* The first reply of the call was a 401 with a challenge the client can
\* answer, the token service issued a token, and the retry succeeded.
AuthenticatedCall ==
    /\ Called
    /\ Len(call.answers) = 3
    /\ ~call.answers[1].err
    /\ call.answers[1].status = 401
    /\ call.answers[1].www = ChValid
    /\ IssuesToken(call.answers[2])
    /\ Succeeds(call.answers[3])

\* C3: one call of API.request sends at most two registry requests and at
\* most one token request, whatever the servers reply; when the retried
\* request is answered with a transport failure or a status >= 300 (a second
\* 401 with a challenge included), the call returns an error, with that
\* reply as its response, and has sent nothing after the retry.
C3_AtMostOneReauthentication ==
    Called =>
        /\ RegistryRequests(call.sent) <= 2
        /\ TokenRequests(call.sent) <= 1
        /\ Len(call.sent) = Len(call.answers)
        /\ (Len(call.answers) >= 3 /\ ~Succeeds(call.answers[3])) =>
               /\ call.out = "err"
               /\ Len(call.sent) = 3
               /\ call.sent[3].kind = "registry"
               /\ (~call.answers[3].err => call.resp = call.answers[3])

\* C3 witness: a call whose retry was answered with a second 401 that
\* carries a challenge.
C3_Witness ==
    /\ Called
    /\ Len(call.answers) = 3
    /\ ~call.answers[3].err
    /\ call.answers[3].status = 401
    /\ call.answers[3].www = ChValid
    /\ call.out = "err"

\* C4, as claimed: an authenticated call yields the reply to its retry; and
\* once a call has been authenticated, every later call sends its first
\* request with the cached token (the last one a token service issued) and,
\* when that request is answered with success, sends no token request.
C4_CachedTokenReused ==
    /\ AuthenticatedCall => (call.out = "ok" /\ call.resp = call.answers[3])
    /\ (Called /\ call.authed) =>
           /\ call.sent[1].auth = <<"Bearer", call.held>>
           /\ Succeeds(call.answers[1]) =>
                  (TokenRequests(call.sent) = 0 /\ a.bearerToken = call.held)

\* C10, as claimed: when the token service answers the token request with a
\* status >= 300, or with a JSON body without a token field, the call fails,
\* the original request is not sent again and the client's token is what it
\* was before the call.
TokenRefused(reply) ==
    /\ ~reply.err
    /\ \/ reply.status >= 300
       \/ reply.body.json /\ "token" \notin DOMAIN reply.body

C10_RefusedTokenFailsCall ==
    (Called /\ Len(call.answers) >= 2 /\ TokenRefused(call.answers[2])) =>
        /\ call.out = "err"
        /\ RegistryRequests(call.sent) = 1
        /\ a.bearerToken = call.before

\* s holds t as a run of consecutive characters.
Contains(s, t) ==
    \E k \in 0..(Len(s) - Len(t)) : \A n \in 1..Len(t) : s[k + n] = t[n]

\* The header names no Bearer challenge the client can answer: it does not
\* start with "Bearer " or holds no realm, service or scope.
Unanswerable(www) ==
    \/ \E n \in 1..7 : n > Len(www) \/ www[n] # <<"B","e","a","r","e","r"," ">>[n]
    \/ \E key \in {<<"r","e","a","l","m">>, <<"s","e","r","v","i","c","e">>,
                    <<"s","c","o","p","e">>} :
           ~Contains(www, key \o <<"=", "\"">>)

\* C11, as claimed: a call whose request is answered 401 with a non-empty
\* challenge header that the client cannot answer returns an error; it has
\* sent no token request and no second request, and the client's token is
\* what it was before the call.
C11_UnanswerableChallengeFailsCall ==
    (/\ Called
     /\ ~call.answers[1].err
     /\ call.answers[1].status = 401
     /\ call.answers[1].www # <<>>
     /\ Unanswerable(call.answers[1].www)) =>
        /\ call.out = "err"
        /\ pc = "client"
        /\ Len(call.sent) = 1
        /\ call.sent[1].kind = "registry"
        /\ a.bearerToken = call.before

\* C15, as claimed: once a token service has issued a token to the client,
\* the client holds the last token issued, the first request of every later
\* call carries it, and the retry of a call carries the token just issued.
C15_StaysAuthenticated ==
    /\ obtained # "" => a.bearerToken = obtained
    /\ (Called /\ call.held # "") =>
           call.sent[1].auth = <<"Bearer", call.held>>
    /\ (Called /\ Len(call.sent) = 3 /\ IssuesToken(call.answers[2])) =>
           call.sent[3].auth = <<"Bearer", call.answers[2].body.token>>

\* C16: a call whose request is answered with a status >= 300 that is not
\* a 401 with a challenge header (another status, with or without the
\* header, or a 401 without it) returns an error with that reply as its
\* response; it has sent that one request only, and the client's token is
\* what it was before the call.
C16_PlainFailureFailsCall ==
    (/\ Called
     /\ ~call.answers[1].err
     /\ call.answers[1].status >= 300
     /\ (call.answers[1].status # 401 \/ call.answers[1].www = <<>>)) =>
        /\ call.out = "err"
        /\ call.resp = call.answers[1]
        /\ Len(call.sent) = 1
        /\ call.sent[1].kind = "registry"
        /\ Len(call.answers) = 1
        /\ a.bearerToken = call.before

\* C16 witness: a client that holds a token gets a reply with a status
\* other than 401 that carries a challenge it could answer.
C16_Witness ==
    /\ Called
    /\ call.before # ""
    /\ ~call.answers[1].err
    /\ call.answers[1].status = 300
    /\ call.answers[1].www = ChValid
    /\ call.out = "err"

(***************************************************************************)
(* Properties of the prune loop.                                           *)
(***************************************************************************)
Range(seq) == {seq[k] : k \in DOMAIN seq}

\* The lines of log that give main's verdict on a group.
VerdictLines ==
    {k \in DOMAIN log :
        log[k].ev \in {"skip-tags", "skip-age", "lookup-failed", "would-delete",
                       "deleting"}}

Eligible(e) == e.ev \in {"would-delete", "deleting"}

PassesFilters(e) == e.repo \in cfg.Repos /\ Range(e.tags) \subseteq cfg.Tags

\* A DELETE request for the manifest of the repository is on the wire.
DeleteSentFor(repository, digest) ==
    \E n \in DOMAIN sent :
        /\ sent[n].method = "DELETE"
        /\ sent[n].path = <<"/v2/", repository, "/manifests/", digest>>

\* The manifests, by repository and digest, whose URL at config.Host parses:
\* those for which registryRequest can build a request.
BuildableManifests ==
    {b : b \in {m \in RepoNames \X DigestNames :
                    Parses(Host \o Flatten(ManifestPath(m[1], m[2])))}}

\* main is about to call api.DeleteManifest for the group of line k, or has
\* called it: the call has sent a DELETE for the digest when the URL of the
\* manifest parses; when it does not, the call has failed without sending
\* anything and main has logged the failure.
DeleteManifestCalled(k) ==
    \/ pc = "delete" /\ cur = log[k].digest /\ k = Len(log)
    \/ IF <<log[k].repo, log[k].digest>> \in BuildableManifests
       THEN DeleteSentFor(log[k].repo, log[k].digest)
       ELSE /\ ~DeleteSentFor(log[k].repo, log[k].digest)
            /\ k < Len(log)
            /\ log[k + 1].ev = "delete-failed"
            /\ log[k + 1].digest = log[k].digest

\* C1, as claimed: a group is eligible if and only if its repository matches
\* the repository filter, all its tags match the tag filter and, with a
\* minimum age, its creation time is strictly before now - MinAge.
C1_EligibleIffStrictlyOlder ==
    \A k \in VerdictLines :
        Eligible(log[k]) <=>
            /\ PassesFilters(log[k])
            /\ cfg.MinAge > 0 =>
                   (log[k].looked /\ log[k].created < log[k].now - cfg.MinAge)

\* C1, amended: a group is eligible (would-delete logged in dry mode; in live
\* mode the deletion logged and api.DeleteManifest called for its digest,
\* which sends a DELETE when the URL of the manifest parses and fails without
\* a request when it does not) if and only if its repository matches the
\* repository filter, all its tags match the tag filter and, with a minimum
\* age, the creation-time lookup succeeded and returned a time not after
\* now - MinAge: a group created exactly MinAge ago is eligible.
C1_EligibleIffNotYounger ==
    \A k \in VerdictLines :
        /\ Eligible(log[k]) <=>
               /\ PassesFilters(log[k])
               /\ cfg.MinAge > 0 =>
                      (log[k].looked /\ log[k].created <= log[k].now - cfg.MinAge)
        /\ Eligible(log[k]) =>
               IF cfg.Dry THEN log[k].ev = "would-delete"
               ELSE log[k].ev = "deleting" /\ DeleteManifestCalled(k)
    /\ \A n \in DOMAIN sent :
           sent[n].method = "DELETE" => sent[n].path[2] \in cfg.Repos

\* C1 witness: a group created exactly MinAge ago, for which main sent DELETE.
C1_Witness ==
    \E k \in VerdictLines :
        /\ log[k].ev = "deleting"
        /\ log[k].looked
        /\ log[k].created = log[k].now - cfg.MinAge
        /\ pc = "group"
        /\ DeleteSentFor(log[k].repo, log[k].digest)

\* C2: in dry mode no DELETE request is ever sent and main never calls
\* DeleteManifest; a group that passes the filters is only logged.
C2_DryRunNeverDeletes ==
    cfg.Dry =>
        /\ \A n \in DOMAIN sent : sent[n].method # "DELETE"
        /\ pc # "delete"
        /\ \A k \in DOMAIN log : log[k].ev # "deleting"

\* C2 witness: a dry run that found a group to delete.
C2_Witness == cfg.Dry /\ \E k \in DOMAIN log : log[k].ev = "would-delete"

\* C5: every DELETE request of the run names the repository and a digest: a
\* key of the map built for the repository, which a HEAD lookup of one of
\* its tags returned, all tags grouped under it matching the tag filter.
C5_DeleteKeyedByDigest ==
    \A n \in DOMAIN sent :
        sent[n].method = "DELETE" =>
            \E d \in DOMAIN result :
                /\ sent[n].path = <<"/v2/", repositories[1], "/manifests/", d>>
                /\ d \in Range(digests)
                /\ Len(digests) = Len(tags)
                /\ Range(result[d]) \subseteq cfg.Tags

\* C5 witness: a DELETE was sent for a group of two tags.
C5_Witness ==
    \E n \in DOMAIN sent :
        /\ sent[n].method = "DELETE"
        /\ \E d \in DOMAIN result :
              sent[n].path[4] = d /\ Len(result[d]) = 2

\* The tags among the first n of the list whose lookup returned d, in order.
RECURSIVE ResolvedTo(_, _)
ResolvedTo(d, n) ==
    IF n = 0 THEN <<>>
    ELSE IF digests[n] = d THEN Append(ResolvedTo(d, n - 1), tags[n])
    ELSE ResolvedTo(d, n - 1)

Occurrences(seq, x) == Cardinality({k \in DOMAIN seq : seq[k] = x})

RECURSIVE SumOver(_, _)
SumOver(S, x) ==
    IF S = {} THEN 0
    ELSE LET d == CHOOSE e \in S : TRUE
         IN  Occurrences(result[d], x) + SumOver(S \ {d}, x)

\* C6: when every lookup of GetTagsIndexedByDigest has succeeded, the map
\* it returns has a group for exactly the digests returned, each group holds
\* exactly the tags that resolved to its digest, and every tag occurs in the
\* groups as often as in the tag list.
C6_GroupsPartitionTags ==
    (pc \in {"group", "created", "delete"} /\ Len(digests) = Len(tags)) =>
        /\ DOMAIN result = Range(digests)
        /\ \A d \in DOMAIN result : result[d] = ResolvedTo(d, Len(tags))
        /\ \A t \in TagNames : SumOver(DOMAIN result, t) = Occurrences(tags, t)

\* C6 witness: two tags were grouped under one digest.
C6_Witness ==
    /\ pc = "group"
    /\ Len(tags) = 2
    /\ tags[1] # tags[2]
    /\ \E d \in DOMAIN result : Len(result[d]) = 2

(***************************************************************************)
(* Properties of the catalog listing.                                      *)
(***************************************************************************)
\* The requests of wire that open a call of API.request: the registry
\* requests that do not follow a token request.
RECURSIVE FirstAttempts(_)
FirstAttempts(wire) ==
    IF wire = <<>> THEN <<>>
    ELSE LET n == Len(wire)
             rest == FirstAttempts(SubSeq(wire, 1, n - 1))
         IN  IF wire[n].kind = "registry" /\ (n = 1 \/ wire[n - 1].kind # "token")
             THEN Append(rest, wire[n])
             ELSE rest

\* The text between the first "<" and the last ">" of link, where there is one.
Between(link) ==
    LET lt == {k \in DOMAIN link : link[k] = "<"}
        gt == {k \in DOMAIN link : link[k] = ">"}
        first == CHOOSE k \in lt : \A j \in lt : k <= j
        last == CHOOSE k \in gt : \A j \in gt : j <= k
    IN  IF lt # {} /\ gt # {} /\ first < last
        THEN SubSeq(link, first + 1, last - 1)
        ELSE <<>>

RECURSIVE NamesOf(_)
NamesOf(ps) ==
    IF ps = <<>> THEN <<>>
    ELSE NamesOf(SubSeq(ps, 1, Len(ps) - 1)) \o ps[Len(ps)].names

\* C7: GetRepositories starts at /v2/_catalog and sends one GET per page;
\* after a page without a Link header it stops and returns the names of all
\* pages in the order received; after a page with a Link header it goes on
\* to the text between the first "<" and the last ">" of the header.
C7_FollowsLinkHeaders ==
    LET n == Len(pages)
        gets == FirstAttempts(sent)
    IN  /\ n >= 1 => pages[1].path = CatalogPath
        /\ \A k \in 1..(n - 1) :
              pages[k].link # <<>> /\ pages[k + 1].path = Between(pages[k].link)
        /\ pc \in {"catalog", "repo"} =>
              /\ Len(gets) = n
              /\ \A k \in 1..n : gets[k].method = "GET" /\ gets[k].path = pages[k].path
        /\ (n >= 1 /\ Len(gets) = n /\ pc # "fatal") =>
              IF pages[n].link = <<>>
              THEN pc = "repo" /\ repositories = NamesOf(pages)
              ELSE pc = "catalog" /\ path = Between(pages[n].link)

(***************************************************************************)
(* Properties of the whole run.                                            *)
(***************************************************************************)
\* A request about one repository: its tag list or one of its manifests.
IsUnitRequest(r) == r.kind = "registry" /\ Len(r.path) >= 3 /\ r.path[1] = "/v2/"

\* C8: when a catalog page cannot be fetched or decoded, GetRepositories
\* returns no names and the run ends there: nothing but catalog pages was
\* ever requested, whatever the earlier pages listed.
C8_CatalogFailureIsFatal ==
    (\E k \in DOMAIN log : log[k].ev = "fatal") =>
        /\ pc = "fatal"
        /\ ~ENABLED Next
        /\ repositories = <<>>
        /\ Len(log) = 1
        /\ \A n \in DOMAIN sent :
              ~IsUnitRequest(sent[n]) /\ sent[n].method = "GET"

\* C8 witness: the second page failed after the first had listed a
\* repository that matches the filter.
C8_Witness ==
    /\ pc = "fatal"
    /\ Len(pages) = 1
    /\ pages[1].names # <<>>
    /\ pages[1].names[1] \in cfg.Repos

\* The positions of main between the listing of the catalog and Done.
MainSteps == {"repo", "tags", "digest", "group", "created", "delete"}

\* C9: once the catalog has been listed and a repository is being
\* inspected, the run is on its way to Done whatever the registry answers:
\* main is at one of its steps, each of which it can take, or at Done.
C9_RunGoesOnToDone ==
    (\E k \in DOMAIN log : log[k].ev = "inspecting") =>
        pc \in MainSteps \cup {"done"}

(***************************************************************************)
(* Properties of the creation-time lookup.                                 *)
(***************************************************************************)
\* GetManifestDigestAndCreated got a response from API.request.
LookedUp == call.out = "ok"

\* The manifest body is not JSON, or its history list has no entry, or the
\* blob of its first history entry is not JSON.
Malformed(body) ==
    \/ ~body.json
    \/ "history" \notin DOMAIN body
    \/ body.history = <<>>
    \/ ~body.history[1].json

\* The lines of log about the group of the last creation-time lookup.
LinesOfLookup ==
    {k \in DOMAIN log : "digest" \in DOMAIN log[k] /\ log[k].digest = call.digest}

\* C12, as claimed: when the manifest body returned to the creation-time
\* lookup is malformed, GetManifestDigestAndCreated returns an error: main
\* logs it, sends no DELETE for the group and goes on with the next group.
C12_MalformedManifestSkipsGroup ==
    (LookedUp /\ Malformed(call.resp.body)) =>
        /\ pc \in MainSteps \cup {"done"}
        /\ \E k \in LinesOfLookup : log[k].ev = "lookup-failed"
        /\ \A k \in LinesOfLookup : log[k].ev = "lookup-failed"
        /\ ~DeleteSentFor(repositories[1], call.digest)

\* The creation time the manifest body holds: the created field of the blob
\* of its first history entry, the zero time when the blob has none.
CreatedIn(body) ==
    IF "created" \in DOMAIN body.history[1] THEN body.history[1].created ELSE 0

\* C14: with a minimum age, a group that passed the tag filter and whose
\* creation time was looked up is skipped by the age step exactly when
\* now - created < MinAge, created being the time the lookup returned; no
\* DELETE is sent for a group skipped, and a group not skipped gets the
\* verdict of the dry flag.
C14_SkippedIffYounger ==
    /\ \A k \in DOMAIN log :
          ("looked" \in DOMAIN log[k] /\ log[k].looked) =>
              /\ cfg.MinAge > 0
              /\ Range(log[k].tags) \subseteq cfg.Tags
              /\ log[k].ev = "skip-age" <=> log[k].now - log[k].created < cfg.MinAge
              /\ log[k].ev = "skip-age" => ~DeleteSentFor(log[k].repo, log[k].digest)
              /\ log[k].ev # "skip-age" =>
                     log[k].ev = IF cfg.Dry THEN "would-delete" ELSE "deleting"
    /\ (LookedUp /\ ~Malformed(call.resp.body)) =>
          \E k \in LinesOfLookup :
              log[k].looked /\ log[k].created = CreatedIn(call.resp.body)
    /\ \A k \in DOMAIN log :
          (log[k].ev \in {"would-delete", "deleting"} /\ cfg.MinAge > 0) =>
              log[k].looked

\* C14 witness: a group one time unit short of the minimum age was skipped,
\* and the run went on to the next group.
C14_Witness ==
    /\ pc = "group"
    /\ \E k \in DOMAIN log :
          /\ log[k].ev = "skip-age"
          /\ log[k].looked
          /\ log[k].now - log[k].created = cfg.MinAge - 1
          /\ log[k].digest = call.digest
          /\ log[k].created = CreatedIn(call.resp.body)

(***************************************************************************)
(* Properties of extractKeyValuePairs.                                     *)
(***************************************************************************)
\* The value of the last pair of ps with key k.
LastValue(ps, k) ==
    ps[CHOOSE n \in DOMAIN ps : ps[n][1] = k /\ \A m \in DOMAIN ps : ps[m][1] = k => m <= n][2]

\* The text holds a key="value" pair: a word character, an equals sign, a
\* double quote and, later, a double quote.
HoldsPair(s) ==
    \E i \in DOMAIN s :
        /\ s[i] \in {"a", "b", "c", "e", "i", "l", "m", "o", "p", "r", "s", "v",
                     "_", "1"}
        /\ i + 2 <= Len(s)
        /\ s[i + 1] = "="
        /\ s[i + 2] = "\""
        /\ \E k \in (i + 3)..Len(s) : s[k] = "\""

\* C13: for a header made of comma-separated key="value" pairs, with or
\* without a blank after the commas, extractKeyValuePairs returns the
\* mapping whose keys are the keys of the pairs, each mapped to its value
\* (to the value of its last pair when the header repeats the key); for a
\* text that holds no key="value" pair it returns the empty mapping.
C13_PairsExtracted ==
    pc = "pairs" =>
        /\ \A ps \in SeqsUpTo(PairKeys \X PairValues, MaxPairs) :
              \A sep \in {<<",">>, <<",", " ">>} :
                 kvIn = Joined(ps, sep) =>
                    /\ DOMAIN kvOut = {ps[n][1] : n \in DOMAIN ps}
                    /\ \A k \in DOMAIN kvOut :
                          kvOut[k] = LastValue(ps, k)
        /\ ~HoldsPair(kvIn) => DOMAIN kvOut = {}

\* C13 witness: a header of two pairs with different keys, a blank after
\* the comma and a value that holds a comma, parsed into two entries.
C13_Witness ==
    /\ pc = "pairs"
    /\ kvIn = Joined(<<<< <<"a">>, <<",", " ", "y">> >>,
                        << <<"b", "_", "1">>, <<"x">> >>>>, <<",", " ">>)
    /\ Cardinality(DOMAIN kvOut) = 2

(***************************************************************************)
(* Properties of the requests of the prune loop.                           *)
(***************************************************************************)
\* The manifest GETs on the wire: the requests of the creation-time lookup.
ManifestGets ==
    {n \in DOMAIN sent :
        /\ sent[n].kind = "registry"
        /\ sent[n].method = "GET"
        /\ Len(sent[n].path) = 4
        /\ sent[n].path[3] = "/manifests/"}

\* Request n follows a token request: it is the second request of a call
\* when the token service issued a token, the first of the next otherwise.
FollowsToken(n) == n > 1 /\ sent[n - 1].kind = "token"

\* The first tag of the tag list that resolved to digest d.
FirstTagOf(d) ==
    tags[CHOOSE k \in DOMAIN digests :
             digests[k] = d /\ \A j \in 1..(k - 1) : digests[j] # d]

Grouped == pc \in {"group", "created", "delete"} /\ Len(digests) = Len(tags)

\* C17: every group of the map returned by GetTagsIndexedByDigest holds a
\* tag, and the tag whose manifest the creation-time lookup requests is the
\* first tag of the registry's tag list that resolved to the group's
\* digest: a function of the tag list and of the resolution alone.
C17_FirstTagLookedUp ==
    /\ Grouped => \A d \in DOMAIN result : result[d] # <<>>
    /\ \A n \in ManifestGets :
          \E d \in DOMAIN result :
              /\ d \in Range(digests)
              /\ sent[n].path = <<"/v2/", repositories[1], "/manifests/", FirstTagOf(d)>>
    /\ (call.out # "none" /\ ManifestGets # {}) =>
          \E n \in ManifestGets :
              /\ \A m \in ManifestGets : m <= n
              /\ sent[n].path[4] = FirstTagOf(call.digest)

\* C17 witness: the creation time of a group of two different tags was
\* looked up.
C17_Witness ==
    /\ call.out = "ok"
    /\ call.digest \in DOMAIN result
    /\ Len(result[call.digest]) = 2
    /\ result[call.digest][1] # result[call.digest][2]
    /\ ManifestGets # {}

\* C18: no request about a repository whose name does not match the
\* repository filter is ever sent, and main logs nothing about it.
C18_UnmatchedRepositorySkipped ==
    /\ \A n \in DOMAIN sent :
          IsUnitRequest(sent[n]) => sent[n].path[2] \in cfg.Repos
    /\ \A k \in DOMAIN log : log[k].repo # "" => log[k].repo \in cfg.Repos
    /\ (pc \in MainSteps \ {"repo"}) => repositories[ri] \in cfg.Repos

\* C18 witness: a run that ended after passing over a repository that does
\* not match and inspecting one that does.
C18_Witness ==
    /\ pc = "done"
    /\ \E k \in DOMAIN repositories : repositories[k] \notin cfg.Repos
    /\ \E k \in DOMAIN log : log[k].ev = "inspecting"

\* The groups of the map whose tags all match the tag filter.
GroupsPassing == {d \in DOMAIN result : Range(result[d]) \subseteq cfg.Tags}

\* The lines of log written after a creation-time lookup was made.
LinesAfterLookup ==
    {k \in DOMAIN log :
        \/ log[k].ev = "lookup-failed"
        \/ "looked" \in DOMAIN log[k] /\ log[k].looked}

\* The process panicked in the creation-time lookup of a group.
PanickedInLookup == pc = "panic" /\ call.out # "none" /\ LinesOfLookup = {}

\* The requests API.request sent to the registry in the last creation-time
\* lookup.
LookupRequests == {n \in DOMAIN call.sent : call.sent[n].kind = "registry"}

\* The last creation-time lookup put the manifest GET of the first tag of
\* its group on the wire at most twice, and twice only around a token
\* request: the first GET was answered 401 with a challenge, the token
\* service answered with a success status and a JSON body, and the second
\* GET carries the token of that body, or no token when the body holds none.
LookupShape ==
    /\ \A n \in LookupRequests :
           /\ call.sent[n].method = "GET"
           /\ call.sent[n].path[3] = "/manifests/"
           /\ call.sent[n].path[4] = result[call.digest][1]
    /\ Cardinality(LookupRequests) <= 2
    /\ Cardinality(LookupRequests) = 2 =>
           /\ Len(call.sent) = 3
           /\ call.sent[2].kind = "token"
           /\ Challenged(call.answers[1])
           /\ Succeeds(call.answers[2])
           /\ call.answers[2].body.json
           /\ call.sent[3].auth =
                  IF IssuesToken(call.answers[2])
                  THEN <<"Bearer", call.answers[2].body.token>> ELSE <<>>

\* C19: without a minimum age (MinAge <= 0) no manifest GET is sent; with
\* one, main makes at most one lookup per group whose tags all match the
\* tag filter and none for another group: it gives one verdict per group,
\* the verdicts given after a lookup are for groups that passed the filter,
\* and every manifest GET names the first tag of such a group.  A lookup
\* puts at most two manifest GETs on the wire, the second only after a
\* token request that was answered with success: the GETs that do not
\* follow a token request are no more than the lookups.
C19_LookupOnlyWhenNeeded ==
    LET lookups == Cardinality(LinesAfterLookup) + (IF PanickedInLookup THEN 1 ELSE 0)
        gets == Cardinality(ManifestGets)
        after == Cardinality({n \in ManifestGets : FollowsToken(n)})
    IN  /\ cfg.MinAge <= 0 => gets = 0
        /\ gets - after <= lookups
        /\ lookups <= Cardinality(GroupsPassing)
        /\ \A k, l \in VerdictLines : log[k].digest = log[l].digest => k = l
        /\ \A k \in LinesAfterLookup : log[k].digest \in GroupsPassing
        /\ \A n \in ManifestGets :
               \E d \in GroupsPassing : sent[n].path[4] = result[d][1]
        /\ call.out # "none" => LookupShape

\* C19 as stated, counting the manifest GETs themselves: none without a
\* minimum age, none for a group that fails the tag filter, and no more of
\* them than there are groups that pass it.
C19_OneManifestGetPerGroup ==
    /\ cfg.MinAge <= 0 => ManifestGets = {}
    /\ \A n \in ManifestGets :
           \E d \in GroupsPassing : sent[n].path[4] = result[d][1]
    /\ Cardinality(ManifestGets) <= Cardinality(GroupsPassing)

\* C19 witness: one group was passed over for its tags, without a lookup,
\* and the GET of the lookup for another was sent twice, the second time
\* without a token after the token service answered 200 with the body {}.
C19_Witness ==
    /\ \E k \in DOMAIN log : log[k].ev = "skip-tags"
    /\ \E n \in ManifestGets : FollowsToken(n)
    /\ Cardinality(ManifestGets) = 2
    /\ Cardinality(LinesAfterLookup) = 1
    /\ call.out = "ok"
    /\ Cardinality(LookupRequests) = 2
    /\ call.answers[2].body = EmptyObject
    /\ call.sent[3].auth = <<>>

\* main has logged that it inspects the i-th repository of the catalog.
Inspected(i) == \E k \in DOMAIN log : log[k].ev = "inspecting" /\ log[k].at = i

\* The tag listing or a digest lookup of the i-th repository of the catalog
\* has failed.
GroupingFailed(i) == \E k \in DOMAIN log : log[k].ev = "error" /\ log[k].at = i

\* A manifest GET or a DELETE: a request of the creation-time lookup or of
\* api.DeleteManifest.
LookupOrDelete(r) ==
    /\ IsUnitRequest(r)
    /\ r.path[3] = "/manifests/"
    /\ r.method \in {"GET", "DELETE"}

DeletesOf(repository, digest) ==
    {n \in DOMAIN sent :
        /\ sent[n].method = "DELETE"
        /\ sent[n].path = <<"/v2/", repository, "/manifests/", digest>>}

\* The lines of log of the kind ev about a group of a repository.
LinesAbout(ev, repository, digest) ==
    {k \in DOMAIN log :
        log[k].ev = ev /\ log[k].repo = repository /\ log[k].digest = digest}

\* The calls of api.DeleteManifest made for a group of a repository: one for
\* each "deleting" line, but for the call main is about to make.
DeleteCalls(repository, digest) ==
    Cardinality(LinesAbout("deleting", repository, digest))
        - (IF pc = "delete" /\ repositories[ri] = repository /\ cur = digest
           THEN 1 ELSE 0)

\* The number of times the catalog lists a repository.
Listings(repository) ==
    Cardinality({i \in DOMAIN repositories : repositories[i] = repository})

\* What ties the DELETE requests for one manifest to the calls that sent
\* them: calls calls, listings listings of the repository in the catalog,
\* failed lines "delete-failed", and the DELETE requests dels; built tells
\* whether the URL of the manifest parses.  A call that cannot build its
\* request fails without sending one.
DeleteBounds(calls, listings, failed, dels, built) ==
    /\ calls <= listings
    /\ failed <= calls
    /\ IF built THEN calls <= Cardinality(dels) ELSE dels = {} /\ failed = calls
    /\ Cardinality(dels) - Cardinality({n \in dels : FollowsToken(n)}) <= calls

\* C21, as claimed: no more than one DELETE request is sent for a
\* repository and a digest.
C21_OneDeletePerPair ==
    \A r \in RepoNames, d \in DigestNames : Cardinality(DeletesOf(r, d)) <= 1

\* C21: main gives one verdict on each group of each listing of a
\* repository in the catalog, exactly one once the loop over its groups has
\* ended, and calls api.DeleteManifest at most once for it, whether the call
\* fails or not.  A call puts no DELETE on the wire when the URL of the
\* manifest does not parse, and otherwise one, or two around a token
\* request: the DELETEs for a manifest that do not follow a token request
\* are no more than the calls.
C21_OneDeleteCallPerGroup ==
    /\ \A k, l \in VerdictLines :
           log[k].at = log[l].at /\ log[k].digest = log[l].digest => k = l
    /\ pc = "group" /\ todo = {} =>
           \A d \in DOMAIN result :
               \E k \in VerdictLines : log[k].at = ri /\ log[k].digest = d
    /\ \A k \in DOMAIN log :
           log[k].ev = "delete-failed" =>
               /\ \E l \in 1..(k - 1) :
                      /\ log[l].ev = "deleting"
                      /\ log[l].at = log[k].at
                      /\ log[l].digest = log[k].digest
               /\ \A l \in DOMAIN log :
                      /\ log[l].ev = "delete-failed"
                      /\ log[l].at = log[k].at
                      /\ log[l].digest = log[k].digest
                      => l = k
    /\ \A r \in RepoNames, d \in DigestNames :
           DeleteBounds(DeleteCalls(r, d), Listings(r),
                        Cardinality(LinesAbout("delete-failed", r, d)),
                        DeletesOf(r, d),
                        <<r, d>> \in BuildableManifests)

\* C21 witness: the run ended after a call of api.DeleteManifest that sent
\* its DELETE twice failed, for a repository that the catalog lists once.
C21_Witness ==
    /\ pc = "done"
    /\ \E k \in DOMAIN log :
          /\ log[k].ev = "delete-failed"
          /\ Listings(log[k].repo) = 1
          /\ Cardinality(DeletesOf(log[k].repo, log[k].digest)) = 2

====
